---------------------------- MODULE Spec2Model ----------------------------
(***************************************************************************)
(* Smart Access, the behavioural access-anomaly engine of                  *)
(* src/app/smart_access/routes.py: the vector store (one Qdrant            *)
(* collection), the two process-wide settings THRESHOLD and BASELINE_DAYS, *)
(* and the handlers collect_event, check_access, settings_save,            *)
(* recompute_centroid and admin_dashboard.                                 *)
(*                                                                         *)
(* Every handler is an `async def` that FastAPI runs on the event loop;    *)
(* collect_event, check_access, recompute_centroid and admin_dashboard     *)
(* contain no await, and settings_save awaits only request.form() before   *)
(* it touches the settings, so each handler body is one atomic step.       *)
(* SpecScroll takes the loop of get_employee_vectors a page at a time,     *)
(* with no other request between the pages.                                *)
(*                                                                         *)
(* Units.  Time is counted in ticks, DAY ticks to a calendar day.  A       *)
(* threshold or a form number is an integer number of thousandths          *)
(* (0.85 is 850).  A cosine score is kept exactly, as the signed square    *)
(* <<n, d>> standing for sign(n) * sqrt(|n| / d), in lowest terms.         *)
(* A string is a sequence: an identity is a sequence of tokens, " " the    *)
(* whitespace token; a timestamp is a sequence of character codes.         *)
(***************************************************************************)
EXTENDS Integers, Sequences, FiniteSets, TLC

VARIABLES
    store,          \* the points of the collection, in the order they were written
    nextId,         \* the ids uuid4() has handed out so far
    THRESHOLD,      \* routes.py:67, thousandths
    BASELINE_DAYS,  \* routes.py:68
    now,            \* the UTC clock, ticks
    published,      \* the settings as the last completed settings_save left them
    pending,        \* the forms of the settings_save requests awaiting request.form()
    resp,           \* the response of the request just handled
    scroll          \* the get_employee_vectors call in progress, if there is one

vars ==
    <<store, nextId, THRESHOLD, BASELINE_DAYS, now, published, pending, resp,
      scroll>>

-----------------------------------------------------------------------------
(* Bounds of the model *)

MaxStore == 3
MaxNow == 4
MaxPending == 1
MaxFlagged == 520

(* Units and program constants *)

DAY == 2
Scale == 1000
DefaultThreshold == 850
DefaultBaselineDays == 30
RecencyDays == 2

-----------------------------------------------------------------------------
(* Strings *)

SP == " "

RECURSIVE LStrip(_)
LStrip(s) == IF s # <<>> /\ Head(s) = SP THEN LStrip(Tail(s)) ELSE s

RECURSIVE RStrip(_)
RStrip(s) ==
    IF s # <<>> /\ s[Len(s)] = SP THEN RStrip(SubSeq(s, 1, Len(s) - 1)) ELSE s

\* The identity taken as it comes.
NoStrip(s) == s

\* str.strip()
Strip(s) == RStrip(LStrip(s))

\* A value of the JSON body that may be absent or null.
None == [present |-> FALSE, val |-> <<>>]
Some(v) == [present |-> TRUE, val |-> v]

\* (x or ""): None and the empty string both give the empty string.
OrEmpty(x) == IF x.present THEN x.val ELSE <<>>

\* dict.get(key, default) of such a value
Get(x, default) == IF x.present THEN x.val ELSE default

\* The keys of a dict that the model does not name, each with its value: a
\* function on the set of those keys.
NoKeys == [k \in {} |-> 0]

\* dict.pop(k, None)
DictPop(d, k) == [x \in (DOMAIN d) \ {k} |-> d[x]]

\* A JSON body of collect_event.
Event(eid, ts, dev, seen) ==
    [employee_id |-> eid, timestamp |-> ts, device_id |-> dev,
     seen_device_before |-> seen, page |-> None, mouse_moves |-> None,
     typing_cpm |-> None, typing_burstiness |-> None, ip |-> None,
     user_agent |-> None, extra |-> NoKeys]

\* Character codes.
ChPlus == 43
ChZero == 48
ChZed == 90
ChWhy == 121

Digits(n) == <<ChZero + (n \div 10), ChZero + (n % 10)>>

\* datetime.isoformat() of a UTC time: the local reading, then "+00:00".
IsoFormat(t) == Digits(t) \o <<ChPlus, ChZero>>

\* Timestamps a client may send: UTC with the Z suffix, a reading in a zone
\* off ticks ahead of UTC, and text that is no ISO timestamp.
IsoZ(t) == Digits(t) \o <<ChZed>>
IsoPlus(t, off) == Digits(t) \o <<ChPlus, ChZero + off>>
BadTs == <<ChWhy>>

IsDigit(c) == c \in ChZero..(ChZero + 9)

\* ts.replace('Z', '+00:00')
RECURSIVE ReplaceZ(_)
ReplaceZ(s) ==
    IF s = <<>> THEN <<>>
    ELSE (IF Head(s) = ChZed THEN <<ChPlus, ChZero>> ELSE <<Head(s)>>)
         \o ReplaceZ(Tail(s))

\* datetime.fromisoformat accepts the text
ParseOk(s) ==
    /\ Len(s) = 4
    /\ IsDigit(s[1]) /\ IsDigit(s[2]) /\ s[3] = ChPlus /\ IsDigit(s[4])

\* datetime.fromisoformat(...).timestamp(): the local reading less the offset
ParseEpoch(s) ==
    (10 * (s[1] - ChZero) + (s[2] - ChZero)) - (s[4] - ChZero)

\* routes.py:187-191
TsEpoch(ts, t) ==
    IF ParseOk(ReplaceZ(ts)) THEN ParseEpoch(ReplaceZ(ts)) ELSE t

\* Python's order of two strings: a < b
RECURSIVE StrLess(_, _)
StrLess(a, b) ==
    IF b = <<>> THEN FALSE
    ELSE IF a = <<>> THEN TRUE
    ELSE IF Head(a) # Head(b) THEN Head(a) < Head(b)
    ELSE StrLess(Tail(a), Tail(b))

\* strftime('%Y-%m-%d') of an epoch time in UTC: the calendar day
DayKey(te) == te \div DAY

-----------------------------------------------------------------------------
(* Numbers *)

RECURSIVE Gcd(_, _)
Gcd(a, b) == IF b = 0 THEN a ELSE Gcd(b, a % b)

Abs(x) == IF x < 0 THEN -x ELSE x

NoScore == <<>>

\* sign(n) * sqrt(|n| / d) in lowest terms
MkScore(n, d) ==
    IF n = 0 THEN <<0, 1>>
    ELSE <<n \div Gcd(Abs(n), d), d \div Gcd(Abs(n), d)>>

\* float comparison of a score with a threshold t >= 0 in thousandths
ScoreLt(s, t) ==
    IF s[1] < 0 THEN t >= 0 ELSE s[1] * Scale * Scale < t * t * s[2]

ScoreGe(s, t) ==
    s[1] >= 0 /\ s[1] * Scale * Scale >= t * t * s[2]

\* A vector is <<x, y, n>>, the rational vector (x/n, y/n).
Dot(a, b) == a[1] * b[1] + a[2] * b[2]

VAdd(a, b) ==
    <<a[1] * b[3] + b[1] * a[3], a[2] * b[3] + b[2] * a[3], a[3] * b[3]>>

RECURSIVE SumVecs(_)
SumVecs(vs) ==
    IF vs = <<>> THEN <<0, 0, 1>> ELSE VAdd(Head(vs), SumVecs(Tail(vs)))

\* np.mean(np.stack(vecs, axis=0), axis=0)
Mean(vs) ==
    <<SumVecs(vs)[1], SumVecs(vs)[2], SumVecs(vs)[3] * Len(vs)>>

\* The cosine with 1 for 0.0 when a norm is 0.
CosineZeroIsOne(a, b) ==
    IF Dot(a, a) = 0 \/ Dot(b, b) = 0 THEN <<1, 1>>
    ELSE MkScore((IF Dot(a, b) < 0 THEN -1 ELSE 1) * Dot(a, b) * Dot(a, b)
                    * a[3] * a[3] * b[3] * b[3],
                 Dot(a, a) * Dot(b, b) * a[3] * a[3] * b[3] * b[3])

\* cosine(a, b): dot(a, b) / (|a| * |b|), and 0.0 when a norm is 0
Cosine(a, b) ==
    LET dot == Dot(a, b)
        na2 == Dot(a, a)
        nb2 == Dot(b, b)
        den == a[3] * a[3] * b[3] * b[3]
    IN  IF na2 = 0 \/ nb2 = 0 THEN <<0, 1>>
        ELSE MkScore((IF dot < 0 THEN -1 ELSE 1) * dot * dot * den,
                     na2 * nb2 * den)

-----------------------------------------------------------------------------
(* The store *)

\* Every record taken to have the key ts_epoch.
HasEpochAll(p) == TRUE

\* The payload keys ts_epoch, score and flagged exist on an event record only.
HasEpoch(p) == p.type = "event"

\* One page of c.scroll: the first limit matches from the offset on, and the
\* offset of the next page (0 for None).
ScrollPage(matches, offset, limit) ==
    LET from == IF offset = 0 THEN 1 ELSE offset
        upto == IF from + limit - 1 < Len(matches)
                THEN from + limit - 1 ELSE Len(matches)
    IN  [points |-> SubSeq(matches, from, upto),
         next |-> IF upto < Len(matches) THEN upto + 1 ELSE 0]

\* routes.py:110-125, the loop over the pages
RECURSIVE ScrollAll(_, _, _)
ScrollAll(matches, offset, limit) ==
    LET page == ScrollPage(matches, offset, limit)
    IN  IF page.next = 0 THEN page.points
        ELSE page.points \o ScrollAll(matches, page.next, limit)

\* limit=256 of the scroll, at the scale of the model's store: a page holds
\* two points.
ScrollLimit == 2

\* The filter without the identity.
InScrollAnyone(p, eid, days, t) ==
    HasEpoch(p) /\ p.ts_epoch >= t - days * DAY

\* The filter of get_employee_vectors: the identity, and ts_epoch >= cutoff.
InScroll(p, eid, days, t) ==
    /\ p.employee_id = eid
    /\ HasEpoch(p)
    /\ p.ts_epoch >= t - days * DAY

\* get_employee_vectors with the collection reachable
GetEmployeeVectors(st, eid, days, t) ==
    LET Match(p) == InScroll(p, eid, days, t)
    IN  ScrollAll(SelectSeq(st, Match), 0, ScrollLimit)

\* One id for every point.
NewIdFixed(n) == 1

\* str(uuid.uuid4()): an id no point has had
NewId(n) == n + 1

\* The point acknowledged and dropped.
UpsertPointLost(st, pt) == st

\* c.upsert: a point whose id is in the collection replaces that point,
\* another one is added.
UpsertPoint(st, pt) ==
    IF \E i \in 1..Len(st) : st[i].id = pt.id
    THEN [i \in 1..Len(st) |-> IF st[i].id = pt.id THEN pt ELSE st[i]]
    ELSE Append(st, pt)

\* seen_device_before: routes.py:144-158
SeenDeviceBefore(st, eid, dev, lookup) ==
    IF dev = <<>> THEN FALSE
    ELSE IF ~lookup THEN FALSE
    ELSE \E i \in 1..Len(st) :
            st[i].employee_id = eid /\ st[i].device_id = Some(dev)

-----------------------------------------------------------------------------
(* Responses *)

\* What a handler returns, and beside it what the request was and what it
\* computed: raw is the employee_id of the body, fault the collaborator call
\* that failed, cscore and cflagged are collect_event's locals score and
\* flagged, cov and nbase are len(base_days) and len(base_vecs), reads are
\* the settings the request read, each with the line that read it, tok and
\* form are the token and the form of a settings_save request.  Of a
\* collect_event request, ev is the body as it came, norm the fields the
\* normalization left, base the ids of the records whose vectors entered
\* base_vecs, and caller_extra the unnamed keys of collect_event's payload
\* after upsert_event returned, vec the vector of the event and centroid the
\* mean of base_vecs when the baseline is mature.  Of a recompute_centroid
\* request, base is the ids of the records whose vectors entered vecs.  Of
\* an admin_dashboard request, nitems is len(items).
Idle ==
    [op |-> "idle", status |-> 0, raw |-> None, fault |-> "none",
     ev |-> Event(None, None, None, None),
     norm |-> [timestamp |-> None, ts_epoch |-> None, user_agent |-> None],
     base |-> <<>>, caller_extra |-> NoKeys, vec |-> <<>>, centroid |-> <<>>,
     nitems |-> 0,
     tok |-> None,
     form |-> [threshold |-> [kind |-> "missing", val |-> 0],
               baseline_days |-> [kind |-> "missing", val |-> 0]],
     eid |-> <<>>, stored |-> FALSE,
     flagged |-> FALSE, score |-> NoScore, allow |-> FALSE, reason |-> "",
     has_score |-> FALSE, threshold |-> 0, sel |-> 0, wrote |-> 0,
     cscore |-> NoScore, cflagged |-> FALSE, cov |-> 0, nbase |-> 0,
     reads |-> {}]

\* raise HTTPException(status_code=...), or an exception nothing catches (500)
Failed(op, eid, code) == [Idle EXCEPT !.op = op, !.eid = eid, !.status = code]

\* The collaborator call of a request that fails, if one does.
Fault(io) ==
    CASE io.embed = <<>> -> "embed_texts"
      [] io.scroll = "raise" -> "scroll"
      [] io.scroll = "down" -> "get_employee_vectors"
      [] io.upsert = "raise" -> "upsert"
      [] io.upsert = "down" -> "upsert_event"
      [] ~io.ensure -> "ensure_collection"
      [] ~io.lookup -> "seen_device_before"
      [] OTHER -> "none"

-----------------------------------------------------------------------------
(* collect_event: routes.py:161-243 *)

\* routes.py:183
Timestamp(ev, t) ==
    IF ev.timestamp.present /\ ev.timestamp.val # <<>>
    THEN ev.timestamp.val ELSE IsoFormat(t)

\* The baseline without the flagged records.
InBaselineUnflagged(p, days, t) ==
    /\ ~p.flagged
    /\ p.ts_epoch # 0
    /\ p.ts_epoch >= t - days * DAY

\* routes.py:213-222: the points of the scroll that enter the baseline
InBaseline(p, days, t) ==
    /\ p.ts_epoch # 0
    /\ p.ts_epoch >= t - days * DAY

BaseOf(pts, days, t) ==
    LET Keep(p) == InBaseline(p, days, t) IN SelectSeq(pts, Keep)

BaseVecs(base) == [i \in 1..Len(base) |-> base[i].vector]

BaseDays(base) == {DayKey(base[i].ts_epoch) : i \in 1..Len(base)}

\* The baseline counted by its events, not by its days.
MatureByCount(base_days, base_vecs, days) ==
    Len(base_vecs) >= days /\ base_vecs # <<>>

\* routes.py:225
Mature(base_days, base_vecs, days) ==
    Cardinality(base_days) >= days /\ base_vecs # <<>>

\* The flag with <= for <, and with the comparison turned round.
FlagLe(score, t) ==
    score[1] < 0 \/ score[1] * Scale * Scale <= t * t * score[2]

FlagGe(score, t) == ScoreGe(score, t)

\* routes.py:228
Flag(score, t) == ScoreLt(score, t)

\* The user agent as the body has it.
UserAgentAsSent(ev, io) == ev.user_agent

\* routes.py:193-194: the user agent of the body, or else of the headers
UserAgent(ev, io) ==
    IF ev.user_agent.present /\ ev.user_agent.val # <<>>
    THEN ev.user_agent ELSE Some(OrEmpty(io.header_ua))

\* routes.py:195-198: the address of the body, or else of the connection
Ip(ev, io) ==
    IF ev.ip.present /\ ev.ip.val # <<>>
    THEN ev.ip ELSE Some(OrEmpty(io.client))

SummaryUaLimit == 200

\* The summary with the unnamed keys of the payload after it.
ToSummaryTextAll(payload) ==
    <<"employee_id: ", Get(payload.employee_id, <<>>),
      "page: ", Get(payload.page, <<>>),
      "keys: ", DOMAIN payload.extra,
      "ts: ", Get(payload.timestamp, <<>>)>>

\* to_summary_text: routes.py:71-85.  The parts in their order, each a label
\* and the value formatted after it.
ToSummaryText(payload) ==
    <<"employee_id: ", Get(payload.employee_id, <<>>),
      "page: ", Get(payload.page, <<>>),
      "mouse_moves: ", Get(payload.mouse_moves, 0),
      "typing_speed_cpm: ", Get(payload.typing_cpm, 0),
      "typing_burstiness: ", Get(payload.typing_burstiness, 0),
      "ip: ", Get(payload.ip, <<>>),
      "device_id: ", Get(payload.device_id, <<>>),
      "seen_device_before: ", Get(payload.seen_device_before, FALSE),
      "ua: ", LET ua == Get(payload.user_agent, <<>>)
              IN  SubSeq(ua, 1, IF Len(ua) < SummaryUaLimit
                                THEN Len(ua) ELSE SummaryUaLimit),
      "ts: ", Get(payload.timestamp, <<>>)>>

\* routes.py:231-238: dict(event) and the update
Payload(event, eid, ts, te, summary, score, flagged) ==
    [employee_id |-> eid, timestamp |-> event.timestamp, ts_iso |-> ts,
     ts_epoch |-> te, device_id |-> event.device_id,
     seen_device_before |-> event.seen_device_before.val,
     user_agent |-> event.user_agent, ip |-> event.ip, page |-> event.page,
     mouse_moves |-> event.mouse_moves, typing_cpm |-> event.typing_cpm,
     typing_burstiness |-> event.typing_burstiness, summary |-> summary,
     score |-> score, flagged |-> flagged, extra |-> event.extra]

\* The payload persisted as it came.
UpsertEventKeepId(payload) == [persisted |-> payload, caller |-> payload]

\* upsert_event, routes.py:133-135: the payload it persists, a copy without
\* the key 'id', and the caller's payload as the call leaves it.
UpsertEvent(payload) ==
    [persisted |-> IF "id" \in DOMAIN payload.extra
                   THEN [payload EXCEPT !.extra = DictPop(@, "id")]
                   ELSE payload,
     caller |-> payload]

\* routes.py:136-140: the point of a payload
EventPoint(id, vec, payload) ==
    [id |-> id, type |-> "event", vector |-> vec,
     employee_id |-> payload.employee_id, timestamp |-> payload.timestamp,
     ts_iso |-> payload.ts_iso, ts_epoch |-> payload.ts_epoch,
     device_id |-> payload.device_id,
     seen_device_before |-> payload.seen_device_before,
     user_agent |-> payload.user_agent, ip |-> payload.ip,
     page |-> payload.page, mouse_moves |-> payload.mouse_moves,
     typing_cpm |-> payload.typing_cpm,
     typing_burstiness |-> payload.typing_burstiness,
     summary |-> payload.summary, score |-> payload.score,
     flagged |-> payload.flagged, extra |-> payload.extra]

\* ev is the JSON body; io is the request's transport and what the
\* collaborators do during the request:
\*   io.header_ua  the User-Agent header, None when there is none
\*   io.client  the host of request.client, None when there is none
\*   io.ensure  ensure_collection() at line 178 finds the collection
\*   io.lookup  the existence lookup of seen_device_before answers
\*   io.embed   the vector embed_texts returns, <<>> when it raises
\*   io.scroll  get_employee_vectors: "ok", "down" (ensure_collection fails),
\*              "raise" (c.scroll raises)
\*   io.upsert  upsert_event: "ok", "down", "raise" (c.upsert raises)
\* pts is what get_employee_vectors returned at line 208.
CollectFrom(ev, io, pts) ==
    LET eid == Strip(OrEmpty(ev.employee_id))
        ts == Timestamp(ev, now)
        te == TsEpoch(ts, now)
        ua == UserAgent(ev, io)
        dev == Strip(OrEmpty(ev.device_id))
        seen == IF ev.seen_device_before.present
                THEN ev.seen_device_before.val
                ELSE SeenDeviceBefore(store, eid, dev, io.lookup)
        event == [ev EXCEPT !.timestamp = Some(ts), !.user_agent = ua,
                            !.ip = Ip(ev, io),
                            !.seen_device_before = Some(seen)]
        summary == ToSummaryText(event)
        vec == io.embed
        base == BaseOf(pts, BASELINE_DAYS, now)
        base_vecs == BaseVecs(base)
        base_days == BaseDays(base)
        mature == Mature(base_days, base_vecs, BASELINE_DAYS)
        score == IF mature THEN Cosine(vec, Mean(base_vecs)) ELSE NoScore
        flagged == mature /\ Flag(score, THRESHOLD)
        payload == Payload(event, eid, ts, te, summary, score, flagged)
        call == UpsertEvent(payload)
        id == NewId(nextId)
        pt == EventPoint(id, vec, call.persisted)
        reads == {<<208, BASELINE_DAYS>>, <<210, BASELINE_DAYS>>,
                  <<225, BASELINE_DAYS>>}
                 \cup (IF mature THEN {<<228, THRESHOLD>>} ELSE {})
        norm == [timestamp |-> Some(ts), ts_epoch |-> Some(te),
                 user_agent |-> ua]
        bad(code) == [Failed("collect", eid, code) EXCEPT
                         !.raw = ev.employee_id, !.fault = Fault(io),
                         !.ev = ev,
                         !.norm = IF code = 400 THEN Idle.norm ELSE norm]
        done == [Idle EXCEPT !.op = "collect", !.eid = eid, !.status = 200,
                             !.raw = ev.employee_id, !.fault = Fault(io),
                             !.ev = ev, !.norm = norm,
                             !.base = [i \in 1..Len(base) |-> base[i].id],
                             !.vec = vec,
                             !.centroid = IF mature THEN Mean(base_vecs)
                                          ELSE <<>>,
                             !.cscore = score, !.cflagged = flagged,
                             !.cov = Cardinality(base_days),
                             !.nbase = Len(base_vecs), !.reads = reads]
    IN  /\ UNCHANGED <<THRESHOLD, BASELINE_DAYS, now, published, pending>>
        /\ IF eid = <<>>
           THEN /\ resp' = bad(400)
                /\ UNCHANGED <<store, nextId>>
           ELSE IF vec = <<>> \/ io.scroll = "raise"
           THEN /\ resp' = bad(500)
                /\ UNCHANGED <<store, nextId>>
           ELSE IF ~io.ensure
           THEN /\ resp' = done
                /\ UNCHANGED <<store, nextId>>
           ELSE IF io.upsert = "raise"
           THEN /\ resp' = bad(500)
                /\ UNCHANGED <<store, nextId>>
           ELSE IF io.upsert = "down"
           THEN /\ resp' = [done EXCEPT !.stored = TRUE, !.flagged = flagged,
                                        !.score = score]
                /\ UNCHANGED <<store, nextId>>
           ELSE /\ Len(store) < MaxStore
                /\ store' = UpsertPoint(store, pt)
                /\ nextId' = id
                /\ resp' = [done EXCEPT !.stored = TRUE, !.flagged = flagged,
                                        !.score = score, !.wrote = id,
                                        !.caller_extra = call.caller.extra]

\* collect_event, the loop of get_employee_vectors within the step
Collect(ev, io) ==
    /\ CollectFrom(ev, io,
                   IF io.scroll = "ok"
                   THEN GetEmployeeVectors(store, Strip(OrEmpty(ev.employee_id)),
                                           BASELINE_DAYS * 2, now)
                   ELSE <<>>)
    /\ UNCHANGED scroll

-----------------------------------------------------------------------------
(* check_access: routes.py:246-259 *)

\* sorted(pts, key=ts_iso, reverse=True) and the first record with a score:
\* the scored records no scored record follows in the order of the ts_iso
\* strings.  Among records with equal strings the sort keeps the scroll's
\* order, the order of the random ids, which is any order.
FirstScored(pts) ==
    {i \in 1..Len(pts) :
        /\ pts[i].score # NoScore
        /\ \A j \in 1..Len(pts) :
              pts[j].score # NoScore => ~StrLess(pts[i].ts_iso, pts[j].ts_iso)}

\* The decision with > for >=.
AllowStrict(score, t) ==
    score[1] >= 0 /\ score[1] * Scale * Scale > t * t * score[2]

\* Every scored identity allowed.
AllowAll(score, t) == TRUE

\* routes.py:257
Allow(score, t) == ScoreGe(score, t)

\* Fail closed.
DefaultDeny == FALSE

\* routes.py:259
DefaultAllow == TRUE

\* pts is what get_employee_vectors returned at line 250; sc is "raise"
\* when c.scroll raised.
CheckAccessFrom(eid, sc, pts) ==
    LET first == FirstScored(pts)
    IN  /\ UNCHANGED <<store, nextId, THRESHOLD, BASELINE_DAYS, now, published,
                       pending>>
        /\ IF sc = "raise"
           THEN resp' = Failed("check", eid, 500)
           ELSE IF first = {}
           THEN resp' = [Idle EXCEPT !.op = "check", !.eid = eid,
                                     !.status = 200, !.allow = DefaultAllow,
                                     !.reason = "no recent score"]
           ELSE \E i \in first :
                   resp' = [Idle EXCEPT
                               !.op = "check", !.eid = eid, !.status = 200,
                               !.allow = Allow(pts[i].score, THRESHOLD),
                               !.has_score = TRUE, !.score = pts[i].score,
                               !.threshold = THRESHOLD, !.sel = pts[i].id,
                               !.reads = {<<257, THRESHOLD>>, <<258, THRESHOLD>>}]

\* check_access, the loop of get_employee_vectors within the step
CheckAccess(eid, sc) ==
    /\ CheckAccessFrom(eid, sc,
                       IF sc = "ok"
                       THEN GetEmployeeVectors(store, eid, RecencyDays, now)
                       ELSE <<>>)
    /\ UNCHANGED scroll

-----------------------------------------------------------------------------
(* get_employee_vectors page by page: routes.py:110-125 *)

\* No call of get_employee_vectors is in progress.  Of a call in progress,
\* op, eid, ev and io are the handler that made it and its request, days
\* its argument, next_offset and out its locals (0 for None), pages the
\* number of pages it has fetched.
NoScroll ==
    [active |-> FALSE, op |-> "none", eid |-> <<>>, days |-> 0,
     ev |-> Event(None, None, None, None),
     io |-> [header_ua |-> None, client |-> None, ensure |-> TRUE,
             lookup |-> TRUE, embed |-> <<>>, scroll |-> "ok",
             upsert |-> "ok"],
     next_offset |-> 0, out |-> <<>>, pages |-> 0]

\* The loop left after its first page, whatever the cursor.
DoneAtOnce(next_offset) == TRUE

\* routes.py:123: not next_offset
Done(next_offset) == next_offset = 0

\* routes.py:110-111: out = [], next_offset = None
ScrollBegin(op, eid, days, ev, io) ==
    /\ scroll' = [NoScroll EXCEPT !.active = TRUE, !.op = op, !.eid = eid,
                                  !.days = days, !.ev = ev, !.io = io]
    /\ resp' = Idle
    /\ UNCHANGED <<store, nextId, THRESHOLD, BASELINE_DAYS, now, published,
                   pending>>

\* collect_event up to its call of get_employee_vectors: routes.py:161-208.
\* A request that is refused, that fails, or whose call finds the
\* collection gone does not enter the loop.
CollectBegin(ev, io) ==
    LET eid == Strip(OrEmpty(ev.employee_id))
    IN  /\ ~scroll.active
        /\ IF eid = <<>> \/ io.embed = <<>> \/ io.scroll # "ok"
           THEN CollectFrom(ev, io, <<>>) /\ UNCHANGED scroll
           ELSE /\ Len(store) < MaxStore
                /\ ScrollBegin("collect", eid, BASELINE_DAYS * 2, ev, io)

\* check_access up to its call of get_employee_vectors: routes.py:246-250
CheckBegin(eid, sc) ==
    /\ ~scroll.active
    /\ IF sc # "ok"
       THEN CheckAccessFrom(eid, sc, <<>>) /\ UNCHANGED scroll
       ELSE ScrollBegin("check", eid, RecencyDays, NoScroll.ev, NoScroll.io)

\* routes.py:112-122: one pass of the loop, a page fetched at the cursor
ScrollStep ==
    /\ scroll.active
    /\ scroll.pages = 0 \/ ~Done(scroll.next_offset)
    /\ LET Match(p) == InScroll(p, scroll.eid, scroll.days, now)
           page == ScrollPage(SelectSeq(store, Match), scroll.next_offset,
                              ScrollLimit)
       IN  scroll' = [scroll EXCEPT !.out = @ \o page.points,
                                    !.next_offset = page.next,
                                    !.pages = @ + 1]
    /\ UNCHANGED <<store, nextId, THRESHOLD, BASELINE_DAYS, now, published,
                   pending, resp>>

\* routes.py:123-125: the loop is left and out is returned
LoopLeft ==
    /\ scroll.active
    /\ scroll.pages > 0 /\ Done(scroll.next_offset)
    /\ scroll' = NoScroll

\* The return of get_employee_vectors and the rest of the handler that
\* called it, to its response.
ScrollReturn ==
    /\ LoopLeft
    /\ IF scroll.op = "collect"
       THEN CollectFrom(scroll.ev, scroll.io, scroll.out)
       ELSE CheckAccessFrom(scroll.eid, "ok", scroll.out)

-----------------------------------------------------------------------------
(* The admin handlers *)

\* admin_required: routes.py:49-62.  A token is None or Some of what
\* auth.decode_token makes of it.
\* routes.py:50-54: the token of the Authorization header when its scheme is
\* bearer, the token of the query string otherwise.  An empty token is None.
BearerToken(authorization, query) ==
    IF authorization.present /\ authorization.val.scheme = "bearer"
    THEN authorization.val.token
    ELSE query

\* The role of the token not looked at.
AdminRequiredAnyRole(tok) ==
    IF ~tok.present THEN 401
    ELSE IF ~tok.val.valid THEN 401
    ELSE 200

AdminRequired(tok) ==
    IF ~tok.present THEN 401
    ELSE IF ~tok.val.valid THEN 401
    ELSE IF tok.val.role \notin {"manager", "admin"} THEN 403
    ELSE 200

Token(valid, role) == Some([valid |-> valid, role |-> role])

\* A form field: missing, text that is no number, an integer literal (val),
\* a decimal literal with a point (val thousandths), or the literal "nan".
Field(kind, val) == [kind |-> kind, val |-> val]

Min(a, b) == IF a < b THEN a ELSE b
Max(a, b) == IF a > b THEN a ELSE b

\* routes.py:324-327: float() of the field, clamped to [0, 1]
\* The value of the form taken as it is.
NewThresholdRaw(f, cur) ==
    CASE f.kind = "missing" -> cur
      [] f.kind = "int" -> f.val * Scale
      [] f.kind = "dec" -> f.val
      [] OTHER -> cur

\* min(1.0, nan) is 1.0: the comparison nan < 1.0 is false.
NewThreshold(f, cur) ==
    CASE f.kind = "missing" -> Max(0, Min(Scale, cur))
      [] f.kind = "int" -> Max(0, Min(Scale, f.val * Scale))
      [] f.kind = "dec" -> Max(0, Min(Scale, f.val))
      [] f.kind = "nan" -> Max(0, Scale)
      [] OTHER -> cur

\* routes.py:328-331: int() of the field, at least 1
NewBaselineDays(f, cur) ==
    CASE f.kind = "missing" -> Max(1, cur)
      [] f.kind = "int" -> Max(1, f.val)
      [] OTHER -> cur

\* The handler suspended between the two assignments: the threshold is
\* assigned, BASELINE_DAYS is not yet, and the update is not complete.
ApplyFormTorn(form) ==
    \/ /\ THRESHOLD' = NewThreshold(form.threshold, THRESHOLD)
       /\ BASELINE_DAYS' = NewBaselineDays(form.baseline_days, BASELINE_DAYS)
       /\ published' = <<THRESHOLD', BASELINE_DAYS'>>
    \/ /\ THRESHOLD' = NewThreshold(form.threshold, THRESHOLD)
       /\ UNCHANGED <<BASELINE_DAYS, published>>

\* routes.py:324-331: both assignments, with no await between them
ApplyForm(form) ==
    /\ THRESHOLD' = NewThreshold(form.threshold, THRESHOLD)
    /\ BASELINE_DAYS' = NewBaselineDays(form.baseline_days, BASELINE_DAYS)
    /\ published' = <<THRESHOLD', BASELINE_DAYS'>>

\* settings_save: routes.py:320-332, the form already there when the
\* handler awaits it
SettingsSave(tok, form) ==
    /\ UNCHANGED <<store, nextId, now, pending, scroll>>
    /\ resp' = [Idle EXCEPT !.op = "settings", !.status = AdminRequired(tok),
                             !.tok = tok, !.form = form]
    /\ IF AdminRequired(tok) = 200
       THEN ApplyForm(form)
       ELSE UNCHANGED <<THRESHOLD, BASELINE_DAYS, published>>

\* settings_save up to its await of request.form(): routes.py:321-323.  The
\* handler is suspended there and other requests run.
SettingsBegin(tok, form) ==
    /\ UNCHANGED <<store, nextId, now, THRESHOLD, BASELINE_DAYS, published,
                   scroll>>
    /\ IF AdminRequired(tok) = 200
       THEN /\ Len(pending) < MaxPending
            /\ pending' = Append(pending, form)
            /\ resp' = Idle
       ELSE /\ UNCHANGED pending
            /\ resp' = [Idle EXCEPT !.op = "settings",
                                    !.status = AdminRequired(tok)]

\* settings_save from the form's arrival to the response: routes.py:324-332.
\* Any of the suspended handlers may be the one that resumes.
SettingsFinish(k) ==
    /\ k \in 1..Len(pending)
    /\ UNCHANGED <<store, nextId, now, scroll>>
    /\ ApplyForm(pending[k])
    /\ pending' = [i \in 1..(Len(pending) - 1) |->
                      IF i < k THEN pending[i] ELSE pending[i + 1]]
    /\ resp' = [Idle EXCEPT !.op = "settings", !.status = 200]

\* The point upsert_event builds from recompute_centroid's payload, which
\* has the keys employee_id, type and ts_iso only.
CentroidPoint(id, eid, ts, vec) ==
    [id |-> id, type |-> "centroid", vector |-> vec, employee_id |-> eid,
     timestamp |-> None, ts_iso |-> ts, ts_epoch |-> 0, device_id |-> None,
     seen_device_before |-> FALSE, user_agent |-> None, ip |-> None,
     page |-> None, mouse_moves |-> None, typing_cpm |-> None,
     typing_burstiness |-> None, summary |-> <<>>, score |-> NoScore,
     flagged |-> FALSE, extra |-> NoKeys]

\* recompute_centroid: routes.py:335-345
RecomputeCentroid(tok, eid, sc, upsert) ==
    LET pts == IF sc = "ok"
               THEN GetEmployeeVectors(store, eid, BASELINE_DAYS, now)
               ELSE <<>>
        vecs == [i \in 1..Len(pts) |-> pts[i].vector]
        id == NewId(nextId)
        pt == CentroidPoint(id, eid, IsoFormat(now), Mean(vecs))
        out == [Idle EXCEPT !.op = "recompute", !.eid = eid,
                            !.base = [i \in 1..Len(pts) |-> pts[i].id],
                            !.fault = Fault([ensure |-> TRUE, lookup |-> TRUE,
                                             embed |-> <<0, 0, 1>>,
                                             scroll |-> sc, upsert |-> upsert]),
                            !.reads = {<<338, BASELINE_DAYS>>}]
    IN  /\ UNCHANGED <<THRESHOLD, BASELINE_DAYS, now, published, pending,
                       scroll>>
        /\ IF AdminRequired(tok) # 200
           THEN /\ resp' = Failed("recompute", eid, AdminRequired(tok))
                /\ UNCHANGED <<store, nextId>>
           ELSE IF sc = "raise"
           THEN /\ resp' = Failed("recompute", eid, 500)
                /\ UNCHANGED <<store, nextId>>
           ELSE IF vecs = <<>>
           THEN /\ resp' = [out EXCEPT !.status = 200, !.reason = "no vectors"]
                /\ UNCHANGED <<store, nextId>>
           ELSE IF upsert = "raise"
           THEN /\ resp' = Failed("recompute", eid, 500)
                /\ UNCHANGED <<store, nextId>>
           ELSE IF upsert = "down"
           THEN /\ resp' = [out EXCEPT !.status = 200, !.stored = TRUE]
                /\ UNCHANGED <<store, nextId>>
           ELSE /\ Len(store) < MaxStore
                /\ store' = UpsertPoint(store, pt)
                /\ nextId' = id
                /\ resp' = [out EXCEPT !.status = 200, !.stored = TRUE,
                                       !.wrote = id]

\* limit=128 of admin_dashboard's scroll, and the 500 of its loop
DashLimit == 128
DashCap == 500

\* admin_dashboard's loop: routes.py:358-383.  The length of items is
\* tested before a page is fetched, and the page fetched is taken whole.
RECURSIVE DashLoop(_, _, _)
DashLoop(matches, items, next_offset) ==
    IF Len(items) < DashCap
    THEN LET page == ScrollPage(matches, next_offset, DashLimit)
             more == items \o page.points
         IN  IF page.next = 0 THEN more
             ELSE DashLoop(matches, more, page.next)
    ELSE items

\* The filter of admin_dashboard: routes.py:353-356
InDashboard(p, employee_id) ==
    /\ p.flagged
    /\ OrEmpty(employee_id) # <<>> => p.employee_id = employee_id.val

\* admin_dashboard: routes.py:348-383, to the list of items its page shows.
\* employee_id is the query parameter, None when there is none; sc is
\* "raise" when c.scroll raises.
AdminDashboard(tok, employee_id, sc) ==
    LET Match(p) == InDashboard(p, employee_id)
        items == DashLoop(SelectSeq(store, Match), <<>>, 0)
    IN  /\ UNCHANGED <<store, nextId, THRESHOLD, BASELINE_DAYS, now, published,
                       pending, scroll>>
        /\ IF AdminRequired(tok) # 200
           THEN resp' = Failed("dashboard", OrEmpty(employee_id),
                               AdminRequired(tok))
           ELSE IF sc = "raise"
           THEN resp' = Failed("dashboard", OrEmpty(employee_id), 500)
           ELSE resp' = [Idle EXCEPT !.op = "dashboard",
                                     !.eid = OrEmpty(employee_id),
                                     !.status = 200,
                                     !.nitems = Len(items)]

-----------------------------------------------------------------------------
(* The clock *)

\* Time passes between two requests.
Tick ==
    /\ now < MaxNow
    /\ now' = now + 1
    /\ resp' = Idle
    /\ UNCHANGED <<store, nextId, THRESHOLD, BASELINE_DAYS, published, pending,
                   scroll>>

-----------------------------------------------------------------------------
(* The specification *)

E1 == <<"e1">>
E2 == <<"e2">>

Io(ensure, lookup, embed, sc, upsert) ==
    [header_ua |-> None, client |-> None,
     ensure |-> ensure, lookup |-> lookup, embed |-> embed,
     scroll |-> sc, upsert |-> upsert]

\* The requests of Spec.  At most one thing goes wrong in a request: the
\* body is invalid, the token is refused, or one collaborator fails.  The
\* events carry no timestamp and take the time of their ingestion.
V1 == <<1, 0, 1>>
V2 == <<0, 1, 1>>

AllWell(v) == Io(TRUE, TRUE, v, "ok", "ok")

CollectRequests ==
    {<<Event(e, None, None, None), AllWell(V1)>> :
        e \in {None, Some(<<>>), Some(<<SP>>)}}
    \cup {<<Event(Some(<<SP, "e1">>), None, None, None), io>> :
            io \in {AllWell(V1), AllWell(V2),
                    Io(FALSE, TRUE, V1, "ok", "ok"),
                    Io(TRUE, TRUE, <<>>, "ok", "ok"),
                    Io(TRUE, TRUE, V1, "down", "ok"),
                    Io(TRUE, TRUE, V1, "raise", "ok"),
                    Io(TRUE, TRUE, V1, "ok", "down"),
                    Io(TRUE, TRUE, V1, "ok", "raise")}}

Outcomes == {"ok", "down", "raise"}

Admin == Token(TRUE, "admin")

Refused == {None, Token(FALSE, ""), Token(TRUE, "staff")}

Form(t, b) == [threshold |-> t, baseline_days |-> b]

Forms ==
    {Form(t, b) :
        t \in {Field("text", 0), Field("int", 0)},
        b \in {Field("text", 0), Field("int", 2)}}

SettingsRequests ==
    {<<Admin, f>> : f \in Forms}
    \cup {<<tok, Form(Field("int", 0), Field("int", 2))>> : tok \in Refused}

RecomputeRequests ==
    {<<Admin, sc, "ok">> : sc \in Outcomes}
    \cup {<<Admin, "ok", up>> : up \in Outcomes}
    \cup {<<tok, "ok", "ok">> : tok \in Refused}

Init ==
    /\ store = <<>>
    /\ nextId = 0
    /\ THRESHOLD = DefaultThreshold
    /\ BASELINE_DAYS = DefaultBaselineDays
    /\ now = 2 * DAY - 1
    /\ published = <<DefaultThreshold, DefaultBaselineDays>>
    /\ pending = <<>>
    /\ resp = Idle
    /\ scroll = NoScroll

Next ==
    \/ \E rq \in CollectRequests : Collect(rq[1], rq[2])
    \/ \E eid \in {E1, E2}, sc \in Outcomes : CheckAccess(eid, sc)
    \/ \E rq \in SettingsRequests : SettingsSave(rq[1], rq[2])
    \/ \E rq \in RecomputeRequests : RecomputeCentroid(rq[1], E1, rq[2], rq[3])
    \/ Tick

Spec == Init /\ [][Next]_vars

\* SpecTs: events with the timestamps clients send, a reading in a zone
\* ahead of UTC among them, under a baseline of one day.
TsRequests ==
    {<<Event(Some(<<"e1">>), t, None, None), AllWell(V1)>> :
        t \in {None, Some(IsoPlus(5, 2)), Some(IsoZ(3))}}

NextTs ==
    \/ \E rq \in TsRequests : Collect(rq[1], rq[2])
    \/ CheckAccess(E1, "ok")
    \/ SettingsSave(Admin, Form(Field("text", 0), Field("int", 0)))
    \/ Tick

SpecTs == Init /\ [][NextTs]_vars

\* SpecCfg: settings_save in its two steps, with the requests that run
\* while it is suspended.
CfgRequests ==
    {<<Event(Some(<<"e1">>), None, None, None), AllWell(v)>> : v \in {V1, V2}}

NextCfg ==
    \/ \E rq \in CfgRequests : Collect(rq[1], rq[2])
    \/ CheckAccess(E1, "ok")
    \/ \E rq \in SettingsRequests : SettingsBegin(rq[1], rq[2])
    \/ \E k \in 1..MaxPending : SettingsFinish(k)
    \/ RecomputeCentroid(Admin, E1, "ok", "ok")
    \/ Tick

SpecCfg == Init /\ [][NextCfg]_vars

\* SpecSet: settings_save with the forms and the credentials a client may
\* send, among the requests that read the settings.
Manager == Token(TRUE, "manager")

Bearer(tok) == Some([scheme |-> "bearer", token |-> tok])
Basic(tok) == Some([scheme |-> "basic", token |-> tok])

Credentials ==
    {<<Bearer(Admin), None>>, <<None, Manager>>, <<Basic(Admin), Manager>>,
     <<Bearer(None), Admin>>, <<None, None>>,
     <<Bearer(Token(FALSE, "")), Admin>>, <<None, Token(TRUE, "staff")>>,
     <<Basic(Admin), None>>}

ThresholdFields ==
    {Field("missing", 0), Field("text", 0), Field("nan", 0),
     Field("int", -1), Field("int", 0), Field("int", 2),
     Field("dec", 500), Field("dec", 1500), Field("dec", -500)}

BaselineFields ==
    {Field("missing", 0), Field("text", 0), Field("nan", 0),
     Field("dec", 2500), Field("int", -3), Field("int", 0), Field("int", 1),
     Field("int", 2)}

SetRequests ==
    {<<cr, Form(Field("int", 0), Field("int", 2))>> : cr \in Credentials}
    \cup {<<<<Bearer(Admin), None>>, Form(t, b)>> :
             t \in ThresholdFields, b \in BaselineFields}

NextSet ==
    \/ \E rq \in SetRequests :
          SettingsSave(BearerToken(rq[1][1], rq[1][2]), rq[2])
    \/ Collect(Event(Some(<<"e1">>), None, None, None), AllWell(V1))
    \/ CheckAccess(E1, "ok")
    \/ Tick

SpecSet == Init /\ [][NextSet]_vars

\* SpecWin: events dated by their clients, at the epoch and after the
\* current time among them, under a baseline of two days; a request may find
\* the collection gone when it comes to write.
WinRequests ==
    {<<Event(Some(<<"e1">>), t, None, None), io>> :
        t \in {None, Some(IsoZ(0)), Some(IsoZ(9))},
        io \in {AllWell(V1), Io(TRUE, TRUE, V2, "ok", "down")}}

NextWin ==
    \/ \E rq \in WinRequests : Collect(rq[1], rq[2])
    \/ SettingsSave(Admin, Form(Field("text", 0), Field("int", 2)))
    \/ Tick

SpecWin == Init /\ [][NextWin]_vars

\* SpecDev: events with a device id, one of them padded with whitespace,
\* and with seen_device_before unset, true or false.
DevRequests ==
    {<<Event(Some(<<"e1">>), None, d, seen), io>> :
        d \in {None, Some(<<"d1">>), Some(<<SP, "d1">>)},
        seen \in {None, Some(TRUE), Some(FALSE)},
        io \in {AllWell(V1), Io(TRUE, FALSE, V1, "ok", "ok")}}

NextDev ==
    \/ \E rq \in DevRequests : Collect(rq[1], rq[2])
    \/ Tick

SpecDev == Init /\ [][NextDev]_vars

\* SpecNorm: events whose timestamp is missing, empty, no ISO timestamp or
\* an ISO timestamp, and events with and without a user agent, over
\* connections with and without a User-Agent header; the embedding may fail.
WithUa(ev, ua) == [ev EXCEPT !.user_agent = ua]
WithHeader(io, h) == [io EXCEPT !.header_ua = h]

NormRequests ==
    {<<Event(Some(<<"e1">>), t, None, None), AllWell(V1)>> :
        t \in {None, Some(<<>>), Some(BadTs), Some(IsoZ(3))}}
    \cup {<<WithUa(Event(Some(<<"e1">>), None, None, None), ua),
            WithHeader(AllWell(V1), h)>> :
             ua \in {None, Some(<<>>), Some(<<"ua">>)},
             h \in {None, Some(<<"hdr">>)}}
    \cup {<<Event(Some(<<"e1">>), Some(BadTs), None, None),
            Io(TRUE, TRUE, <<>>, "ok", "ok")>>}

NextNorm ==
    \/ \E rq \in NormRequests : Collect(rq[1], rq[2])
    \/ Tick

SpecNorm == Init /\ [][NextNorm]_vars

\* SpecPay: events with a page or none, and with keys of the client's own
\* in the body, 'id' among them, under the initial baseline and a baseline
\* of one day.
WithPage(ev, page) == [ev EXCEPT !.page = page]
WithKeys(ev, extra) == [ev EXCEPT !.extra = extra]

PayRequests ==
    {<<WithKeys(WithPage(Event(Some(<<"e1">>), None, None, None), pg), x),
       AllWell(V1)>> :
        pg \in {None, Some(<<"/home">>)},
        x \in {NoKeys, [id |-> 7], [note |-> 1], [id |-> 7, note |-> 1]}}

NextPay ==
    \/ \E rq \in PayRequests : Collect(rq[1], rq[2])
    \/ SettingsSave(Admin, Form(Field("text", 0), Field("int", 1)))
    \/ RecomputeCentroid(Admin, E1, "ok", "ok")
    \/ Tick

SpecPay == Init /\ [][NextPay]_vars

\* SpecAge: events dated by their clients a day and a half before the
\* latest time of the clock, under a baseline of one day, and the access
\* checks that follow them; a request may find the collection gone when it
\* comes to write.
AgeRequests ==
    {<<Event(Some(<<"e1">>), t, None, None), AllWell(v)>> :
        t \in {None, Some(IsoZ(1))}, v \in {V1, V2}}
    \cup {<<Event(Some(<<"e1">>), None, None, None),
            Io(TRUE, TRUE, V1, "ok", "down")>>}

NextAge ==
    \/ \E rq \in AgeRequests : Collect(rq[1], rq[2])
    \/ CheckAccess(E1, "ok")
    \/ SettingsSave(Admin, Form(Field("text", 0), Field("int", 1)))
    \/ Tick

SpecAge == Init /\ [][NextAge]_vars

\* SpecScroll: collect_event and check_access with the loop of
\* get_employee_vectors taken a page at a time, under a baseline of one day.
\* A handler runs without an await from its call of get_employee_vectors to
\* its response, so a pass of the loop that can be taken is taken, and so is
\* the return: the one step of NextScroll that is a LoopLeft step is
\* ScrollReturn, which can be taken whenever LoopLeft can.
ScrollRequests ==
    {<<Event(Some(<<"e1">>), None, None, None), io>> :
        io \in {AllWell(V1), AllWell(V2),
                Io(TRUE, TRUE, V1, "down", "ok"),
                Io(TRUE, TRUE, V1, "raise", "ok")}}

NextScroll ==
    \/ \E rq \in ScrollRequests : CollectBegin(rq[1], rq[2])
    \/ \E eid \in {E1, E2}, sc \in Outcomes : CheckBegin(eid, sc)
    \/ ScrollStep
    \/ ScrollReturn
    \/ ~scroll.active
       /\ SettingsSave(Admin, Form(Field("text", 0), Field("int", 1)))
    \/ ~scroll.active /\ Tick

SpecScroll ==
    /\ Init
    /\ [][NextScroll]_vars
    /\ WF_vars(ScrollStep)
    /\ WF_scroll(LoopLeft)

\* SpecZero: events whose embedding is a vector, its opposite or the zero
\* vector, under a baseline of one day and the thresholds 0.85, 0.5 and 0.
VNeg == <<-1, 0, 1>>
VZero == <<0, 0, 1>>

ZeroRequests ==
    {<<Event(Some(<<"e1">>), None, None, None), AllWell(v)>> :
        v \in {V1, VNeg, VZero}}

ZeroForms ==
    {Form(t, Field("int", 1)) :
        t \in {Field("text", 0), Field("int", 0), Field("dec", 500)}}

NextZero ==
    \/ \E rq \in ZeroRequests : Collect(rq[1], rq[2])
    \/ \E f \in ZeroForms : SettingsSave(Admin, f)
    \/ Tick

SpecZero == Init /\ [][NextZero]_vars

\* SpecDash: the admin dashboard over a collection that earlier runs of the
\* process left, of up to MaxFlagged flagged records of one identity.
OldFlagged(i) ==
    LET event == [Event(Some(E1), None, None, None) EXCEPT
                     !.timestamp = Some(IsoFormat(1)),
                     !.user_agent = Some(<<>>), !.ip = Some(<<>>),
                     !.seen_device_before = Some(FALSE)]
    IN  EventPoint(i, V1,
                   Payload(event, E1, IsoFormat(1), 1, ToSummaryText(event),
                           <<0, 1>>, TRUE))

InitDash ==
    /\ \E n \in 0..MaxFlagged :
          /\ store = [i \in 1..n |-> OldFlagged(i)]
          /\ nextId = n
    /\ THRESHOLD = DefaultThreshold
    /\ BASELINE_DAYS = DefaultBaselineDays
    /\ now = 2 * DAY - 1
    /\ published = <<DefaultThreshold, DefaultBaselineDays>>
    /\ pending = <<>>
    /\ resp = Idle
    /\ scroll = NoScroll

DashRequests ==
    {<<Admin, e, sc>> : e \in {None, Some(<<>>), Some(E1), Some(E2)},
                        sc \in {"ok", "raise"}}
    \cup {<<tok, None, "ok">> : tok \in Refused}

NextDash ==
    \/ \E rq \in DashRequests : AdminDashboard(rq[1], rq[2], rq[3])
    \/ Tick

SpecDash == InitDash /\ [][NextDash]_vars

\* SpecIso: events of two identities, with and without a device id, under a
\* baseline of one day, and the access checks of both.
IsoRequests ==
    {<<Event(Some(E1), None, Some(<<"d1">>), None), AllWell(V2)>>,
     <<Event(Some(E2), None, Some(<<"d1">>), None), AllWell(V1)>>,
     <<Event(Some(E2), None, None, None), AllWell(V1)>>}

NextIso ==
    \/ \E rq \in IsoRequests : Collect(rq[1], rq[2])
    \/ \E eid \in {E1, E2} : CheckAccess(eid, "ok")
    \/ SettingsSave(Admin, Form(Field("text", 0), Field("int", 1)))
    \/ Tick

SpecIso == Init /\ [][NextIso]_vars

\* SpecSnap: centroid snapshots among the events of an identity, under a
\* baseline of one day: recompute_centroid with a store that answers, is
\* gone or fails, and the requests that read the store after it.
SnapRequests ==
    {<<Event(Some(<<"e1">>), None, None, None), io>> :
        io \in {AllWell(V1), AllWell(V2), Io(TRUE, TRUE, V1, "ok", "down")}}

NextSnap ==
    \/ \E rq \in SnapRequests : Collect(rq[1], rq[2])
    \/ CheckAccess(E1, "ok")
    \/ SettingsSave(Admin, Form(Field("text", 0), Field("int", 1)))
    \/ \E rq \in RecomputeRequests, eid \in {E1, E2} :
          RecomputeCentroid(rq[1], eid, rq[2], rq[3])
    \/ Tick

SpecSnap == Init /\ [][NextSnap]_vars

-----------------------------------------------------------------------------
(* Properties *)

Points == {store[i] : i \in 1..Len(store)}

\* The point a request wrote.
Written(id) == CHOOSE p \in Points : p.id = id

\* The event records of an identity with ts_epoch at or after t - days days.
EventsSince(st, eid, days, t) ==
    {i \in 1..Len(st) :
        /\ st[i].employee_id = eid
        /\ st[i].type = "event"
        /\ st[i].ts_epoch >= t - days * DAY}

\* The distinct calendar days of those records.
Coverage(st, eid, days, t) ==
    Cardinality({DayKey(st[i].ts_epoch) : i \in EventsSince(st, eid, days, t)})

\* An employee_id that is missing, empty or whitespace only.
Blank(x) == ~x.present \/ \A i \in 1..Len(x.val) : x.val[i] = SP

\* C1: a collect_event request that finds fewer distinct calendar days than
\* BASELINE_DAYS among the identity's events of the last BASELINE_DAYS days
\* (the records with ts_epoch >= now - BASELINE_DAYS days, as the code bounds
\* the window) computes and returns score null and flagged false, and writes
\* them, however many events those days hold.
C1_ColdStart ==
    [][(/\ resp'.op = "collect"
        /\ resp'.status = 200
        /\ Coverage(store, resp'.eid, BASELINE_DAYS, now) < BASELINE_DAYS)
       => (/\ resp'.cscore = NoScore /\ ~resp'.cflagged
           /\ resp'.score = NoScore /\ ~resp'.flagged
           /\ \A i \in (Len(store) + 1)..Len(store') :
                 store'[i].score = NoScore /\ ~store'[i].flagged)]_vars

\* Two events on one day, a minimum of two days, and the third event stored
\* without a score.
C1_Witness ==
    /\ resp.op = "collect" /\ resp.status = 200 /\ resp.wrote # 0
    /\ BASELINE_DAYS = 2 /\ resp.nbase >= 2 /\ resp.cov = 1
    /\ resp.score = NoScore

\* C2: the flagged value a collect_event request computes is true exactly
\* when it computed a score and the score is strictly below THRESHOLD, the
\* threshold of that request (no settings_save has run since: the response is
\* still the last one); the response and the record written never carry
\* flagged true with a null score.
C2_FlagIffBelow ==
    (resp.op = "collect" /\ resp.status = 200)
    => /\ resp.cflagged <=>
             (resp.cscore # NoScore /\ ScoreLt(resp.cscore, THRESHOLD))
       /\ resp.flagged => resp.score # NoScore
       /\ resp.wrote # 0 =>
             /\ Written(resp.wrote).flagged = resp.cflagged
             /\ Written(resp.wrote).score = resp.cscore

\* A request that computed a score below the threshold and wrote the flag.
C2_Witness ==
    /\ resp.op = "collect" /\ resp.status = 200 /\ resp.wrote # 0
    /\ resp.cflagged /\ resp.flagged /\ resp.cscore # NoScore
    /\ Written(resp.wrote).flagged

\* C3 as claimed: every record with flagged true has a score below the
\* threshold now configured.
C3_FlaggedBelowCurrent ==
    \A p \in Points :
        p.flagged => p.score # NoScore /\ ScoreLt(p.score, THRESHOLD)

\* C3 amended: every record with flagged true has a score, and a step that
\* writes a record with flagged true writes a score below the threshold in
\* force during that step.
C3_FlaggedBelowAtWrite ==
    /\ [](\A p \in Points : p.flagged => p.score # NoScore)
    /\ [][\A i \in 1..Len(store') :
             (/\ i > Len(store) \/ store'[i] # store[i]
              /\ store'[i].flagged)
             => (/\ store'[i].score # NoScore
                 /\ ScoreLt(store'[i].score, THRESHOLD))]_vars

\* A flagged record whose score is not below the threshold now configured.
C3_Witness ==
    \E p \in Points : p.flagged /\ ~ScoreLt(p.score, THRESHOLD)

\* The scored event records of an identity that check_access scrolls: those
\* with ts_epoch at or after now - RecencyDays days.
ScoredRecent(eid) ==
    {p \in Points :
        /\ p.employee_id = eid
        /\ p.type = "event"
        /\ p.ts_epoch >= now - RecencyDays * DAY
        /\ p.score # NoScore}

\* C4: the record check_access selects is, among the identity's scored
\* records of the recency window, one with the latest event time.
C4_SelectsLatest ==
    (resp.op = "check" /\ resp.has_score)
    => \A p \in ScoredRecent(resp.eid) :
          p.ts_epoch <= Written(resp.sel).ts_epoch

\* C5: when check_access finds a record with a score, it returns that
\* score, the threshold now configured, and allow true exactly when the
\* score is at least that threshold.
C5_AllowIffAtLeast ==
    (resp.op = "check" /\ resp.has_score)
    => /\ resp.score = Written(resp.sel).score
       /\ resp.threshold = THRESHOLD
       /\ resp.allow <=> ScoreGe(resp.score, THRESHOLD)

\* A selected score equal to the threshold, and the check allows.
C5_Witness ==
    /\ resp.op = "check" /\ resp.has_score /\ resp.allow
    /\ ScoreGe(resp.score, THRESHOLD) /\ ~ScoreLt(resp.score, THRESHOLD)
    /\ resp.score[1] * Scale * Scale = THRESHOLD * THRESHOLD * resp.score[2]

\* C6: a check_access that answers for an identity with no scored event
\* record at or after now - RecencyDays days answers allow true with the
\* reason "no recent score" and no score; an answer that carries a score
\* does not carry that reason.
C6_FailOpen ==
    (resp.op = "check" /\ resp.status = 200)
    => /\ ScoredRecent(resp.eid) = {}
          => (resp.allow /\ resp.reason = "no recent score" /\ ~resp.has_score)
       /\ resp.has_score => resp.reason # "no recent score"

\* The identity has records, none of them scored.
C6_Witness ==
    /\ resp.op = "check" /\ resp.status = 200 /\ ~resp.has_score
    /\ resp.allow /\ resp.eid = E1
    /\ \E p \in Points : p.employee_id = E1 /\ p.type = "event"
    /\ ScoredRecent(E1) = {}

\* C7: a collect_event request whose employee_id is missing, empty or
\* whitespace only is answered 400 and leaves the store as it was.
C7_BlankRejected ==
    [][(resp'.op = "collect" /\ Blank(resp'.raw))
       => (resp'.status = 400 /\ store' = store /\ nextId' = nextId)]_vars

\* A whitespace identity refused with records in the store.
C7_Witness ==
    /\ resp.op = "collect" /\ resp.status = 400
    /\ resp.raw = Some(<<SP>>) /\ Len(store) > 0

\* C8: a collect_event request with a valid identity during which
\* embed_texts, the scroll or the upsert fails ends with a successful
\* response carrying stored false and score null.
C8_FailuresDegrade ==
    (/\ resp.op = "collect" /\ ~Blank(resp.raw)
     /\ resp.fault \in {"embed_texts", "scroll", "upsert"})
    => (resp.status = 200 /\ ~resp.stored /\ resp.score = NoScore)

\* C9: a step keeps every record of the store as it is, id, vector, score
\* and flagged included, removes none, and gives a record it adds an id no
\* record has; no two records share an id.
C9_AppendOnly ==
    /\ [](\A i, j \in 1..Len(store) : store[i].id = store[j].id => i = j)
    /\ [][/\ Len(store') >= Len(store)
          /\ \A i \in 1..Len(store) : store'[i] = store[i]
          /\ \A i \in (Len(store) + 1)..Len(store') :
                \A j \in 1..Len(store) : store'[i].id # store[j].id]_vars

\* A centroid snapshot just added to a store that holds events, with the
\* settings no longer the initial ones.
C9_Witness ==
    /\ resp.op = "recompute" /\ resp.wrote # 0 /\ Len(store) >= 3
    /\ \E p \in Points : p.type = "event"
    /\ THRESHOLD # DefaultThreshold /\ BASELINE_DAYS # DefaultBaselineDays

\* The setting a line of the handlers reads.
SettingRead(line) == IF line \in {228, 257, 258} THEN 1 ELSE 2

\* C10: the settings a collect_event, check_access or recompute_centroid
\* request read are all those of one published configuration, the one the
\* last completed settings_save left.
C10_OneConfiguration ==
    (resp.op \in {"collect", "check", "recompute"})
    => \A r \in resp.reads : r[2] = published[SettingRead(r[1])]

\* A scored collect_event, which read both settings, after a settings_save
\* changed both.
C10_Witness ==
    /\ resp.op = "collect" /\ Cardinality(resp.reads) = 4
    /\ published[1] # DefaultThreshold /\ published[2] # DefaultBaselineDays

\* The form values float() and int() refuse.
NoFloat(f) == f.kind = "text"
NoInt(f) == f.kind \in {"text", "dec", "nan"}

\* C11: THRESHOLD is always within [0, 1] and BASELINE_DAYS is always an
\* integer of at least 1, whatever forms settings_save was sent; a
\* settings_save whose threshold field float() refuses leaves THRESHOLD as
\* it was, and one whose baseline_days field int() refuses leaves
\* BASELINE_DAYS as it was.
C11_SettingsInRange ==
    /\ [](/\ THRESHOLD >= 0 /\ THRESHOLD <= Scale
          /\ BASELINE_DAYS \in Int /\ BASELINE_DAYS >= 1)
    /\ [][resp'.op = "settings"
          => /\ NoFloat(resp'.form.threshold) => THRESHOLD' = THRESHOLD
             /\ NoInt(resp'.form.baseline_days)
                   => BASELINE_DAYS' = BASELINE_DAYS]_vars

\* An accepted form with a threshold above 1 and baseline_days "2.5": the
\* threshold is clamped to 1 and BASELINE_DAYS keeps the value an earlier
\* form gave it.
C11_Witness ==
    /\ resp.op = "settings" /\ resp.status = 200
    /\ resp.form.threshold = Field("dec", 1500) /\ THRESHOLD = Scale
    /\ resp.form.baseline_days = Field("dec", 2500) /\ BASELINE_DAYS = 1

\* A token that admin_required accepts.
Privileged(tok) ==
    tok.present /\ tok.val.valid /\ tok.val.role \in {"manager", "admin"}

\* C12: a step that changes THRESHOLD or BASELINE_DAYS is a settings_save
\* whose token decodes to the role manager or admin; a settings_save with
\* no token, an invalid token or another role is answered 401 or 403 and
\* changes neither; no collect_event and no check_access changes them.
C12_OnlyPrivilegedSave ==
    /\ [][(THRESHOLD' # THRESHOLD \/ BASELINE_DAYS' # BASELINE_DAYS)
          => (/\ resp'.op = "settings" /\ resp'.status = 200
              /\ Privileged(resp'.tok))]_vars
    /\ [][(resp'.op = "settings" /\ ~Privileged(resp'.tok))
          => (/\ resp'.status \in {401, 403}
              /\ UNCHANGED <<THRESHOLD, BASELINE_DAYS>>)]_vars
    /\ [][resp'.op \in {"collect", "check"}
          => UNCHANGED <<THRESHOLD, BASELINE_DAYS>>]_vars

\* A token of role staff refused with 403 after both settings were changed.
C12_Witness ==
    /\ resp.op = "settings" /\ resp.status = 403
    /\ resp.tok = Token(TRUE, "staff")
    /\ THRESHOLD # DefaultThreshold /\ BASELINE_DAYS # DefaultBaselineDays

\* The lookback window of W days at time t: from t - W days to t.
InWindow(te, W, t) == te >= t - W * DAY /\ te <= t

\* The times an id occurs in a sequence of ids.
Count(id, ids) == Cardinality({k \in 1..Len(ids) : ids[k] = id})

\* C13: when a collect_event request whose scroll answers computes a
\* centroid, every event record of the identity with ts_epoch inside the
\* lookback window has its vector in base_vecs exactly once, over the pages
\* of the scroll.
C13_ContributesOnce ==
    [][(/\ resp'.op = "collect" /\ resp'.status = 200
        /\ resp'.fault # "get_employee_vectors"
        /\ resp'.cscore # NoScore)
       => \A i \in 1..Len(store) :
             (/\ store[i].type = "event"
              /\ store[i].employee_id = resp'.eid
              /\ InWindow(store[i].ts_epoch, BASELINE_DAYS, now))
             => Count(store[i].id, resp'.base) = 1]_vars

\* C20: every record whose vector a collect_event request takes into
\* base_vecs, and whose day it takes into base_days, has its ts_epoch inside
\* the lookback window, no earlier than now - BASELINE_DAYS days and no
\* later than now.
C20_OnlyWindow ==
    [][(resp'.op = "collect" /\ resp'.status = 200)
       => \A k \in 1..Len(resp'.base) :
             \A i \in 1..Len(store) :
                store[i].id = resp'.base[k]
                => InWindow(store[i].ts_epoch, BASELINE_DAYS, now)]_vars

\* C14: the record a collect_event request writes, when the body leaves
\* seen_device_before unset and the lookup answers, has seen_device_before
\* true if the store held a record of the identity with the device id of
\* the body, and only if it held one with that device id up to surrounding
\* whitespace; when the body gives true or false, the record has that value.
C14_SeenResolved ==
    [][(/\ resp'.op = "collect" /\ resp'.wrote # 0
        /\ resp'.fault = "none")
       => LET new == store'[Len(store')]
              ev == resp'.ev
              Held(Same(_)) ==
                  \E i \in 1..Len(store) :
                      /\ store[i].employee_id = resp'.eid
                      /\ store[i].device_id.present
                      /\ Same(store[i].device_id.val)
              Equal(d) == d = ev.device_id.val
              Alike(d) == Strip(d) = Strip(ev.device_id.val)
          IN  /\ (~ev.seen_device_before.present /\ ev.device_id.present)
                 => /\ Held(Equal) => new.seen_device_before
                    /\ new.seen_device_before => Held(Alike)
              /\ ev.seen_device_before.present
                 => new.seen_device_before = ev.seen_device_before.val]_vars

\* The text is an ISO timestamp, and the instant it denotes.
IsIso(ts) == ParseOk(ReplaceZ(ts))
Instant(ts) == ParseEpoch(ReplaceZ(ts))

\* C15: the record a collect_event request writes has, when the timestamp
\* of the body is missing or no ISO timestamp, the ingestion time as its
\* timestamp; and the timestamp and the ts_epoch of the record denote the
\* same instant.
C15_TimestampDefaults ==
    [][(resp'.op = "collect" /\ resp'.wrote # 0)
       => LET new == store'[Len(store')]
              sent == resp'.ev.timestamp
          IN  /\ (~sent.present \/ ~IsIso(sent.val))
                 => new.timestamp = Some(IsoFormat(now))
              /\ new.timestamp.present
              /\ IsIso(new.timestamp.val)
              /\ Instant(new.timestamp.val) = new.ts_epoch]_vars

\* C16: a collect_event request with a valid identity comes out of the
\* normalization, whatever else the body holds, with timestamp, ts_epoch
\* and user_agent that are not null.
C16_NormalizedNonNull ==
    (resp.op = "collect" /\ ~Blank(resp.raw))
    => /\ resp.norm.timestamp.present
       /\ resp.norm.ts_epoch.present
       /\ resp.norm.user_agent.present

\* A body without a user agent over a connection without the header: the
\* user agent is the empty string.
C16_Witness ==
    /\ resp.op = "collect" /\ resp.status = 200
    /\ ~resp.ev.user_agent.present /\ ~resp.ev.timestamp.present
    /\ resp.norm.user_agent = Some(<<>>)
    /\ resp.norm.timestamp = Some(IsoFormat(now))

\* C17: no record of the store has the key 'id' in its payload; the record
\* a collect_event request writes has the other keys of the body with their
\* values, and the fields of the body that pass through; and the payload of
\* collect_event still has its keys, 'id' included, when upsert_event has
\* returned.
C17_IdStripped ==
    /\ [](\A p \in Points : "id" \notin DOMAIN p.extra)
    /\ [][(resp'.op = "collect" /\ resp'.wrote # 0)
          => LET new == store'[Len(store')]
                 ev == resp'.ev
             IN  /\ DOMAIN new.extra = (DOMAIN ev.extra) \ {"id"}
                 /\ \A k \in DOMAIN new.extra : new.extra[k] = ev.extra[k]
                 /\ new.page = ev.page /\ new.device_id = ev.device_id
                 /\ new.mouse_moves = ev.mouse_moves
                 /\ new.typing_cpm = ev.typing_cpm
                 /\ new.typing_burstiness = ev.typing_burstiness
                 /\ resp'.caller_extra = ev.extra]_vars

\* A body with the keys 'id' and 'note': the record has 'note', the
\* caller's payload still has both.
C17_Witness ==
    /\ resp.op = "collect" /\ resp.wrote # 0
    /\ DOMAIN resp.ev.extra = {"id", "note"}
    /\ DOMAIN Written(resp.wrote).extra = {"note"}
    /\ DOMAIN resp.caller_extra = {"id", "note"}

\* The event a record's summary was made from: the fields of the record,
\* and the employee_id as the summary has it (the record keeps the stripped
\* one).
SummaryInput(p) ==
    [employee_id |-> p.summary[2], page |-> p.page,
     mouse_moves |-> p.mouse_moves, typing_cpm |-> p.typing_cpm,
     typing_burstiness |-> p.typing_burstiness, ip |-> p.ip,
     device_id |-> p.device_id, seen_device_before |-> p.seen_device_before,
     user_agent |-> p.user_agent, timestamp |-> p.timestamp]

Events == {p \in Points : p.type = "event"}

\* C18: two events that agree on employee_id, page, mouse_moves,
\* typing_cpm, typing_burstiness, ip, device_id, seen_device_before,
\* user_agent and timestamp have the same summary, whatever the store and
\* the settings were when each was summarised and whatever other keys each
\* body had.
C18_SummaryDeterministic ==
    \A p, q \in Events :
        SummaryInput(p) = SummaryInput(q) => p.summary = q.summary

\* Two records with one summary: they differ in the keys of the body, and
\* one was written before the baseline was mature, the other after.
C18_Witness ==
    \E p, q \in Events :
        /\ SummaryInput(p) = SummaryInput(q)
        /\ p.extra # q.extra
        /\ p.score = NoScore /\ q.score # NoScore
        /\ p.summary = q.summary

\* The record a collect_event step adds is in the state the maturity of
\* the baseline gives it: a score and a flag when the identity's events of
\* the last BASELINE_DAYS days cover BASELINE_DAYS distinct days, no score
\* and no flag when they do not.
OneOfThree(st, new, eid, days, t) ==
    /\ new.type = "event"
    /\ new.flagged \in BOOLEAN
    /\ Coverage(st, eid, days, t) >= days => new.score # NoScore
    /\ Coverage(st, eid, days, t) < days
          => (new.score = NoScore /\ ~new.flagged)

StartDay == DayKey(2 * DAY - 1)

\* C21: with a coverage minimum of two days or more, a collect_event request
\* made while every record of the store was ingested during one calendar day
\* is not scored, whatever timestamps the requests carried.
C21_OneDayNeverMature ==
    (/\ resp.op = "collect" /\ resp.status = 200
     /\ BASELINE_DAYS >= 2
     /\ DayKey(now) = StartDay)
    => resp.cscore = NoScore

\* C22: the record whose score decides a check_access request has a
\* timestamp no more than 24 hours before the check.
C22_OnlyLastDay ==
    (resp.op = "check" /\ resp.has_score)
    => Written(resp.sel).ts_epoch >= now - DAY

\* The records the filter of the call in progress matches, in scroll order.
Matching ==
    LET Match(p) == InScroll(p, scroll.eid, scroll.days, now)
    IN  SelectSeq(store, Match)

\* C23: a call of get_employee_vectors starts with no cursor and nothing
\* collected; each pass fetches the page at the cursor the pass before
\* returned and takes that page's cursor; the loop goes on while the cursor
\* is not null and is left exactly when a page came with a null cursor, with
\* every matching record collected once; and every collect_event and
\* check_access request that entered the loop produces its response.
C23_ScrollTerminates ==
    /\ [][(~scroll.active /\ scroll'.active)
          => (/\ scroll'.next_offset = 0
              /\ scroll'.out = <<>>
              /\ scroll'.pages = 0)]_vars
    /\ [][(scroll.active /\ scroll'.active)
          => (/\ scroll.pages = 0 \/ scroll.next_offset # 0
              /\ scroll'.pages = scroll.pages + 1
              /\ scroll'.next_offset =
                    ScrollPage(Matching, scroll.next_offset, ScrollLimit).next
              /\ scroll'.out =
                    scroll.out
                    \o ScrollPage(Matching, scroll.next_offset,
                                  ScrollLimit).points)]_vars
    /\ [][(scroll.active /\ ~scroll'.active)
          => (/\ scroll.pages > 0
              /\ scroll.next_offset = 0
              /\ scroll.out = Matching
              /\ resp'.op \in {"collect", "check"}
              /\ resp'.eid = scroll.eid)]_vars
    /\ (scroll.active ~> (~scroll.active /\ resp.op \in {"collect", "check"}))

\* A call that took two pages has returned, and its check_access has
\* answered from a scored record.
C23_Witness ==
    /\ ~scroll.active
    /\ resp.op = "check" /\ resp.has_score
    /\ Len(store) > ScrollLimit
    /\ \A i \in 1..Len(store) :
          InScroll(store[i], resp.eid, RecencyDays, now)

\* A vector of norm 0.
ZeroNorm(v) == v[1] = 0 /\ v[2] = 0

\* C24: a collect_event request that finds the baseline mature and whose
\* vector or centroid has norm 0 computes the score 0, and flags the event
\* exactly when the threshold is above 0.
C24_ZeroNormScoresZero ==
    (/\ resp.op = "collect" /\ resp.status = 200
     /\ resp.cov >= BASELINE_DAYS /\ resp.nbase > 0
     /\ ZeroNorm(resp.vec) \/ ZeroNorm(resp.centroid))
    => (/\ resp.cscore = <<0, 1>>
        /\ resp.cflagged <=> THRESHOLD > 0)

\* An event with a vector of norm 1 scored against a centroid of norm 0
\* under the threshold 0, and written without the flag.
C24_Witness ==
    /\ resp.op = "collect" /\ resp.wrote # 0
    /\ resp.cov >= BASELINE_DAYS /\ resp.nbase > 0
    /\ ~ZeroNorm(resp.vec) /\ ZeroNorm(resp.centroid)
    /\ THRESHOLD = 0
    /\ Written(resp.wrote).score = <<0, 1>> /\ ~Written(resp.wrote).flagged

\* C25: the list of items the admin dashboard builds never holds more than
\* 500 entries.
C25_AtMostCap ==
    resp.op = "dashboard" => resp.nitems <= DashCap

\* C26: a collect_event response has stored = true exactly when the request
\* added a record to the store.
C26_StoredTellsTruth ==
    [][(resp'.op = "collect" /\ resp'.status = 200)
       => (resp'.stored <=> Len(store') = Len(store) + 1)]_vars

\* The records of an identity, in the order of the store.
Own(st, eid) ==
    LET Mine(p) == p.employee_id = eid IN SelectSeq(st, Mine)

\* C27: what a request computes for an identity is what it would compute
\* over the records of that identity alone: the baseline, its day coverage,
\* the score and the flag of a collect_event, the device it finds seen
\* before, and the record and the answer of a check_access.  Two runs that
\* differ in the collect_event requests of another identity only have the
\* same records of this identity, and so the same results for it.
C27_Isolated ==
    [][/\ (resp'.op = "collect" /\ resp'.wrote # 0)
          => LET eid == resp'.eid
                 own == Own(store, eid)
                 base == BaseOf(GetEmployeeVectors(own, eid, BASELINE_DAYS * 2,
                                                   now),
                                BASELINE_DAYS, now)
                 mature == Mature(BaseDays(base), BaseVecs(base),
                                  BASELINE_DAYS)
                 score == IF mature
                          THEN Cosine(resp'.vec, Mean(BaseVecs(base)))
                          ELSE NoScore
                 new == store'[Len(store')]
             IN  /\ resp'.base = [i \in 1..Len(base) |-> base[i].id]
                 /\ resp'.cov = Cardinality(BaseDays(base))
                 /\ new.score = score /\ resp'.score = score
                 /\ new.flagged = (mature /\ Flag(score, THRESHOLD))
                 /\ resp'.flagged = new.flagged
                 /\ new.seen_device_before
                       = SeenDeviceBefore(own, eid,
                                          Strip(OrEmpty(resp'.ev.device_id)),
                                          TRUE)
       /\ (resp'.op = "check" /\ resp'.status = 200)
          => LET eid == resp'.eid
                 pts == GetEmployeeVectors(Own(store, eid), eid, RecencyDays,
                                           now)
                 first == FirstScored(pts)
             IN  /\ resp'.has_score <=> first # {}
                 /\ resp'.has_score
                       => \E i \in first :
                             /\ resp'.sel = pts[i].id
                             /\ resp'.allow = Allow(pts[i].score, THRESHOLD)
                 /\ ~resp'.has_score => resp'.allow = DefaultAllow]_vars

\* An event of one identity scored 1 against its own record while the
\* store holds a record of another identity with another vector and the
\* same device, which the event's device lookup did not find.
C27_Witness ==
    /\ resp.op = "collect" /\ resp.wrote # 0
    /\ resp.cscore = <<1, 1>>
    /\ resp.ev.device_id = Some(<<"d1">>)
    /\ ~Written(resp.wrote).seen_device_before
    /\ \E p \in Points :
          /\ p.employee_id # resp.eid
          /\ p.vector # resp.vec
          /\ p.device_id = Some(<<"d1">>)
          /\ InScroll(p, p.employee_id, BASELINE_DAYS, now)

\* C28: a check_access request that selects a record whose flag is the one
\* the threshold of the check gives its score, as it is when the threshold
\* has not changed since the record was stored, allows exactly when the
\* record is not flagged; and so does a check_access request that follows
\* at once the collect_event request that stored the record it selects.
C28_AllowIsNotFlagged ==
    /\ [](LET p == Written(resp.sel)
          IN  (/\ resp.op = "check" /\ resp.has_score
               /\ p.flagged <=> Flag(p.score, THRESHOLD))
              => (resp.allow <=> ~p.flagged))
    /\ [][(/\ resp.op = "collect" /\ resp.wrote # 0
           /\ resp.cscore # NoScore
           /\ resp'.op = "check" /\ resp'.has_score
           /\ resp'.sel = resp.wrote)
          => (/\ THRESHOLD' = THRESHOLD
              /\ resp'.allow <=> ~resp.cflagged)]_vars

\* A check_access request has denied on a flagged record that was stored
\* under the threshold of the check.
C28_Witness ==
    /\ resp.op = "check" /\ resp.has_score /\ ~resp.allow
    /\ Written(resp.sel).flagged
    /\ Flag(Written(resp.sel).score, THRESHOLD)
    /\ THRESHOLD = DefaultThreshold

\* The ids of a sequence of ids.
Ids(ids) == {ids[i] : i \in 1..Len(ids)}

VectorsOf(ids) ==
    [i \in 1..Len(ids) |-> (CHOOSE p \in Points : p.id = ids[i]).vector]

\* C30: the records that enter the baseline of a collect_event request and
\* the centroid of a recompute_centroid request are event records, and so
\* is the record that decides a check_access request, never a centroid
\* snapshot; a recompute_centroid request of an administrator during which
\* the store is available adds exactly one record, a snapshot of the mean of
\* the identity's event vectors of the last BASELINE_DAYS days, when there
\* is such an event, and adds nothing and answers 'no vectors' otherwise.
C30_SnapshotsInert ==
    [][/\ (resp'.op = "collect" /\ resp'.status = 200)
          => /\ \A id \in Ids(resp'.base) :
                   (CHOOSE p \in Points : p.id = id).type = "event"
             /\ resp'.centroid # <<>>
                   => resp'.centroid = Mean(VectorsOf(resp'.base))
       /\ (resp'.op = "recompute" /\ resp'.status = 200)
          => \A id \in Ids(resp'.base) :
                (CHOOSE p \in Points : p.id = id).type = "event"
       /\ (resp'.op = "check" /\ resp'.has_score)
          => (CHOOSE p \in Points : p.id = resp'.sel).type = "event"
       /\ (/\ resp'.op = "recompute" /\ resp'.status = 200
           /\ resp'.fault = "none")
          => LET in == EventsSince(store, resp'.eid, BASELINE_DAYS, now)
             IN  IF in # {}
                 THEN /\ Len(store') = Len(store) + 1
                      /\ \A i \in 1..Len(store) : store'[i] = store[i]
                      /\ store'[Len(store')].type = "centroid"
                      /\ store'[Len(store')].employee_id = resp'.eid
                      /\ store'[Len(store')].vector
                            = Mean(VectorsOf(resp'.base))
                      /\ Ids(resp'.base) = {store[i].id : i \in in}
                      /\ resp'.reason # "no vectors"
                 ELSE /\ store' = store
                      /\ resp'.reason = "no vectors"]_vars

\* A check_access request has answered from a scored event record while
\* the store holds a later snapshot of the identity.
C30_Witness ==
    /\ resp.op = "check" /\ resp.has_score
    /\ \E p \in Points :
          /\ p.type = "centroid" /\ p.employee_id = resp.eid
          /\ p.id > resp.sel

=============================================================================
